---- MODULE Spec2Model ----
(***************************************************************************)
(* Extraction engine of the dispensary scraper: the Run Coordinator        *)
(* (scrape_all_categories, synchronous and asynchronous variant), the      *)
(* Navigator (_safe_page_goto with its retry loop, _safe_click) and the    *)
(* pagination loop of Category Traversal (_load_all_products).             *)
(***************************************************************************)
EXTENDS Integers, Sequences, FiniteSets, TLC

(* ------------------------------ bounds -------------------------------- *)
MaxStores == 2        \* stores a directory page can yield
NumCategories == 2    \* entries of config.categories
MaxCards == 2         \* product cards on one category page
MaxCalls == 2         \* direct method calls made by the method harness
MaxIter == 3          \* pagination iterations counted before the counter saturates
MaxAnchors == 2       \* dispensary links on the directory page handed to extract_store_links
MaxHrefs == 2         \* distinct paths the dispensary links point to
MaxTexts == 2         \* distinct non-blank link texts
MaxSlugs == 2         \* distinct product slugs on a category page
MaxCrumbs == 2        \* breadcrumb links of a detail page
MaxRegionLen == 4     \* characters of an href or a link text handed to the region filter
MaxStrainLen == 4     \* symbols of a text handed to the strain-type extraction
MaxThcPieces == 4     \* pieces of a text handed to the potency extraction
MaxPriceLen == 5      \* characters of a text handed to the price extraction
MaxSelCalls == 3      \* scrape_category calls made on one session

(* ------------------------- program constants -------------------------- *)
sync_max_retries == 3      \* trulieve_scraper_sync.py:151
async_max_retries == 3     \* base_scraper.py:70
base_delay == 1            \* base_scraper.py:70 (delay), trulieve_scraper_sync.py:159
rate_limit_min == 700      \* models.py:57, settings.py:81
rate_limit_max == 1500     \* models.py:57, settings.py:86
inter_store_pause == 2     \* base_scraper_sync.py:159, base_scraper.py:238

VARIABLES
    variant,             \* "sync": BaseScraperSync/TrulieveScraperSync, "async": BaseScraper/TrulieveScraper
    pc,                  \* position of scrape_all_categories
    stores,              \* list returned by extract_store_links
    si, ci,              \* cursor of the store loop and of the category loop
    all_products,        \* accumulated items
    stores_scraped, categories_scraped,
    session,             \* "none" | "playwright" | "open" | "closed"
    released,            \* teardown of the playwright context manager was attempted
    exc,                 \* exception in flight ("none" when there is none)
    result,              \* <<>> or <<ScrapingResult>> once returned
    opened,              \* history: a browser was launched in this run
    discoveryFailed,     \* history: extract_store_links swallowed a failure
    closeFailed,         \* history: browser.close() threw
    teardownFailed,      \* history: the context manager's __exit__ threw
    failedUnits,         \* history: (store index, category index) units whose scrape failed
    productiveUnits,     \* history: units that found product cards
    cancelled,           \* history: an external interrupt arrived
    navPc,               \* position of _safe_page_goto
    navAttempt,          \* loop variable `attempt`
    navOutcomes,         \* history: outcome of each page.goto attempt of the call
    navWaits,            \* history: back-off sleeps of the call, in seconds
    navDelay,            \* rate-limit delay applied after the call's success, in ms (0: none)
    navCaller,           \* who called _safe_page_goto
    calls,               \* direct method calls made so far
    clickIn,             \* <<>> or <<behaviour of the page handed to the last _safe_click>>
    clickOut,            \* <<>> or <<outcome of the last _safe_click>>
    loadPc,              \* position of _load_all_products
    loadIter,            \* completed "Load More" clicks of the call (saturates at MaxIter)
    loadWait,            \* last wait_for_timeout duration of the call, in ms
    anchors,             \* <<>> or <<anchors of the directory page handed to extract_store_links>>
    discOut,             \* <<>> or <<list extract_store_links returned>>
    cardIn,              \* <<>> or <<card and detail pages handed to extract_product_data_from_card>>
    cardOut,             \* <<>> or <<what extract_product_data_from_card returned and the detail pages it left open>>
    pageCards,           \* <<>> or <<behaviour and cards of the category page handed to scrape_category>>
    catOut,              \* <<>> or <<list scrape_category returned>>
    record,              \* <<>> or <<a ProductData object>>
    recLast,             \* last operation applied to `record`
    built,               \* <<>> or <<a ScrapingResult constructed directly>>
    stdout,              \* <<>> or <<JSON document standalone_scraper.py printed>>
    hostResult,          \* <<>> or <<what run_scraping_workflow made of the document>>
    storePauses,         \* history: inter-store sleeps of the run, in seconds
    textIn,              \* <<>> or <<extractor called and the text, resp. page, handed to it>>
    textOut,             \* <<>> or <<what the extractor returned>>
    selected,            \* store the browser session has selected (0: none)
    recorded,            \* history: (store recorded, store the page was served for) of scraped products
    selCalls             \* scrape_category calls made on the session

runVars == <<pc, stores, si, ci, all_products, stores_scraped, categories_scraped,
             session, released, exc, result, opened, discoveryFailed, closeFailed,
             teardownFailed, failedUnits, productiveUnits, cancelled>>
navVars == <<navPc, navAttempt, navOutcomes, navWaits, navDelay, navCaller>>
methodVars == <<calls, clickIn, clickOut, loadPc, loadIter, loadWait>>
extractVars == <<anchors, discOut, cardIn, cardOut, pageCards, catOut>>
recordVars == <<record, recLast, built>>
subVars == <<stdout, hostResult>>
paceVars == <<storePauses>>
textVars == <<textIn, textOut>>
selectVars == <<selected, recorded, selCalls>>
dataVars == <<extractVars, recordVars, subVars, paceVars, textVars, selectVars>>
vars == <<variant, runVars, navVars, methodVars, dataVars>>

Variants == {"sync", "async"}

(* ---------------------------- Navigator goto --------------------------- *)

\* 2 ** n
RECURSIVE Pow2(_)
Pow2(n) == IF n = 0 THEN 1 ELSE 2 * Pow2(n - 1)

\* Mutant: the synchronous loop written as range(max_retries + 1) as well.
MaxAttemptsOneMore(v) == IF v = "sync" THEN sync_max_retries + 1 ELSE async_max_retries + 1

\* Number of iterations of the retry loop: range(max_retries) in the synchronous
\* _safe_page_goto, range(max_retries + 1) in the asynchronous _retry_operation.
MaxAttempts(v) == IF v = "sync" THEN sync_max_retries ELSE async_max_retries + 1

\* Sleep after failed attempt number `attempt` (0-based): 2 ** attempt, resp.
\* delay * (2 ** attempt).
BackoffWait(attempt) == base_delay * Pow2(attempt)

\* `attempt < max_retries - 1` (sync) / `attempt < max_retries` (async): the
\* failed attempt is followed by a sleep and another attempt.
RetryAfter(v, attempt) == attempt < MaxAttempts(v) - 1

\* Durations _apply_rate_limit can sleep, in ms: random.randint(min, max).
RateLimitDelays == {rate_limit_min, (rate_limit_min + rate_limit_max) \div 2, rate_limit_max}

\* Position of _safe_page_goto after a successful page.goto: the asynchronous
\* variant awaits _apply_rate_limit, the synchronous one returns at once.
AfterGotoSuccess(v) == IF v = "async" THEN "ratelimit" ELSE "returned"

NavIdle == navPc = "idle" /\ navAttempt = 0 /\ navOutcomes = <<>> /\ navWaits = <<>>
           /\ navDelay = 0 /\ navCaller = "none"

\* Entry of _safe_page_goto.
StartGoto(caller) ==
    /\ navPc' = "attempt"
    /\ navAttempt' = 0
    /\ navOutcomes' = <<>>
    /\ navWaits' = <<>>
    /\ navDelay' = 0
    /\ navCaller' = caller

\* One page.goto attempt inside the retry loop.
GotoAttempt ==
    /\ navPc = "attempt"
    /\ \E ok \in BOOLEAN :
        /\ navOutcomes' = Append(navOutcomes, ok)
        /\ navPc' = IF ok THEN AfterGotoSuccess(variant)
                    ELSE IF RetryAfter(variant, navAttempt) THEN "backoff"
                    ELSE "raised"
    /\ UNCHANGED <<navAttempt, navWaits, navDelay, navCaller, variant, runVars, methodVars, dataVars>>

\* The sleep between two attempts.
GotoBackoff ==
    /\ navPc = "backoff"
    /\ navWaits' = Append(navWaits, BackoffWait(navAttempt))
    /\ navAttempt' = navAttempt + 1
    /\ navPc' = "attempt"
    /\ UNCHANGED <<navOutcomes, navDelay, navCaller, variant, runVars, methodVars, dataVars>>

\* await self._apply_rate_limit() after the successful retry loop (async only).
GotoRateLimit ==
    /\ navPc = "ratelimit"
    /\ \E d \in RateLimitDelays : navDelay' = d
    /\ navPc' = "returned"
    /\ UNCHANGED <<navAttempt, navOutcomes, navWaits, navCaller, variant, runVars, methodVars, dataVars>>

NavDone == navPc \in {"returned", "raised"}

MethodIdle == calls = 0 /\ clickIn = <<>> /\ clickOut = <<>> /\ loadPc = "idle"
              /\ loadIter = 0 /\ loadWait = 0

DataIdle == /\ anchors = <<>> /\ discOut = <<>> /\ cardIn = <<>> /\ cardOut = <<>>
            /\ pageCards = <<>> /\ catOut = <<>>
            /\ record = <<>> /\ recLast = "none" /\ built = <<>>
            /\ stdout = <<>> /\ hostResult = <<>>
            /\ storePauses = <<>>
            /\ textIn = <<>> /\ textOut = <<>>
            /\ selected = 0 /\ recorded = {} /\ selCalls = 0

(* --------------------------- Run Coordinator --------------------------- *)

StoreNames == 1..MaxStores

\* Store lists extract_store_links can return for some directory page.
StoreLists == UNION {[1..n -> StoreNames] : n \in 0..MaxStores}

\* What TrulieveScraperSync.scrape_category appends for one card:
\* extract_product_data_from_card is an `async def` called without await, so
\* the call only builds a coroutine object, which is truthy and is appended.
SyncCardItem(store, cat, i) == [kind |-> "coroutine", store |-> store, cat |-> cat, idx |-> i]

\* List returned by TrulieveScraperSync.scrape_category.  navOk: _safe_page_goto
\* returned; cards: number of .product-card elements (0: wait_for_selector times
\* out); pageOk: locating the cards did not throw.  Every failure is caught
\* inside scrape_category and gives [].
ScrapeCategorySync(navOk, pageOk, cards, store, cat) ==
    IF navOk /\ pageOk /\ cards > 0
    THEN [i \in 1..cards |-> SyncCardItem(store, cat, i)]
    ELSE <<>>

\* pydantic validation of `products: List[ProductData]`.
ValidProducts(products) == \A i \in 1..Len(products) : products[i].kind = "ProductData"

\* Mutant: a run that collected nothing is reported as failed.
ScrapingResultEmptyIsFailure(success, products, error_message, cats, strs) ==
    [success |-> success /\ Len(products) > 0, products |-> products,
     error_message |-> error_message,
     categories_scraped |-> cats, stores_scraped |-> strs, total_products |-> 0]

\* ScrapingResult(...): total_products keeps its Field default, __post_init__
\* is not a hook of pydantic's BaseModel and never runs.
ScrapingResult(success, products, error_message, cats, strs) ==
    [success |-> success, products |-> products, error_message |-> error_message,
     categories_scraped |-> cats, stores_scraped |-> strs, total_products |-> 0]

\* Exceptions `except Exception` catches.
IsException(e) == e \in {"Exception", "NameError", "ValidationError"}

\* Where control goes when the `with sync_playwright()` block is left.
AfterWith(e) == IF e = "none" THEN "build_ok"
                ELSE IF IsException(e) THEN "handler"
                ELSE "raised"

\* Lines 113-116 / 191-194: the locals of scrape_all_categories.
RunStart ==
    /\ pc = "idle"
    /\ pc' = "enter"
    /\ all_products' = <<>>
    /\ stores_scraped' = 0
    /\ categories_scraped' = 0
    /\ UNCHANGED <<stores, si, ci, session, released, exc, result, opened, discoveryFailed,
                   closeFailed, failedUnits, productiveUnits, cancelled, variant, navVars, methodVars, teardownFailed, dataVars>>

\* async: `async with async_playwright()` names a function base_scraper.py never
\* imports (line 9 imports sync_playwright), so the NameError is raised inside
\* the try and no session is ever opened.
AsyncEnter ==
    /\ pc = "enter" /\ variant = "async"
    /\ exc' = "NameError"
    /\ pc' = "handler"
    /\ UNCHANGED <<stores, si, ci, all_products, stores_scraped, categories_scraped, session,
                   released, result, opened, discoveryFailed, closeFailed, failedUnits,
                   productiveUnits, cancelled, variant, navVars, methodVars, teardownFailed, dataVars>>

\* sync: with sync_playwright() as playwright; _launch_browser; _create_context;
\* context.new_page().
OpenSession ==
    /\ pc = "enter" /\ variant = "sync"
    /\ \E o \in {"ok", "enter_fail", "launch_fail", "context_fail"} :
        /\ session' = CASE o = "enter_fail" -> "none"
                        [] o = "launch_fail" -> "playwright"
                        [] OTHER -> "open"
        /\ opened' = (o \in {"ok", "context_fail"})
        /\ exc' = IF o = "ok" THEN "none" ELSE "Exception"
        /\ pc' = CASE o = "ok" -> "goto_base"
                   [] o = "enter_fail" -> "handler"
                   [] OTHER -> "with_exit"
    /\ UNCHANGED <<stores, si, ci, all_products, stores_scraped, categories_scraped, released,
                   result, discoveryFailed, closeFailed, failedUnits, productiveUnits,
                   cancelled, variant, navVars, methodVars, teardownFailed, dataVars>>

\* sync: page.goto(self.settings.base_url), not wrapped by the Navigator.
GotoBase ==
    /\ pc = "goto_base"
    /\ \E ok \in BOOLEAN :
        /\ exc' = IF ok THEN "none" ELSE "Exception"
        /\ pc' = IF ok THEN "wait_load" ELSE "with_exit"
    /\ UNCHANGED <<stores, si, ci, all_products, stores_scraped, categories_scraped, session,
                   released, result, opened, discoveryFailed, closeFailed, failedUnits,
                   productiveUnits, cancelled, variant, navVars, methodVars, teardownFailed, dataVars>>

\* _wait_for_page_load: a PlaywrightTimeoutError is swallowed, anything else
\* propagates.
WaitForPageLoad ==
    /\ pc = "wait_load"
    /\ \E o \in {"idle", "timeout", "error"} :
        /\ exc' = IF o = "error" THEN "Exception" ELSE "none"
        /\ pc' = IF o = "error" THEN "with_exit" ELSE "discover"
    /\ UNCHANGED <<stores, si, ci, all_products, stores_scraped, categories_scraped, session,
                   released, result, opened, discoveryFailed, closeFailed, failedUnits,
                   productiveUnits, cancelled, variant, navVars, methodVars, teardownFailed, dataVars>>

\* extract_store_links, first half: self._safe_page_goto(dispensaries_url).
DiscoverGoto ==
    /\ pc = "discover"
    /\ StartGoto("discover")
    /\ pc' = "discover_nav"
    /\ UNCHANGED <<stores, si, ci, all_products, stores_scraped, categories_scraped, session,
                   released, exc, result, opened, discoveryFailed, closeFailed, failedUnits,
                   productiveUnits, cancelled, variant, methodVars, teardownFailed, dataVars>>

\* List extract_store_links returns: its `except Exception` turns a failed
\* navigation and a throwing link extraction into [].
ExtractStoreLinks(navOk, pageOk, found) == IF navOk /\ pageOk THEN found ELSE <<>>

\* extract_store_links, second half, and the head of the store loop.
DiscoverFinish ==
    /\ pc = "discover_nav" /\ NavDone
    /\ \E pageOk \in BOOLEAN, found \in StoreLists :
        /\ stores' = ExtractStoreLinks(navPc = "returned", pageOk, found)
        /\ discoveryFailed' = ~(navPc = "returned" /\ pageOk)
    /\ si' = 1
    /\ pc' = "store_loop"
    /\ UNCHANGED <<ci, all_products, stores_scraped, categories_scraped, session, released,
                   exc, result, opened, closeFailed, failedUnits, productiveUnits, cancelled,
                   variant, navVars, methodVars, teardownFailed, dataVars>>

\* `for store in stores:` - next store or leave the loop.
StoreLoop ==
    /\ pc = "store_loop"
    /\ IF si <= Len(stores)
       THEN ci' = 1 /\ pc' = "cat_loop"
       ELSE ci' = ci /\ pc' = "close"
    /\ UNCHANGED <<stores, si, all_products, stores_scraped, categories_scraped, session,
                   released, exc, result, opened, discoveryFailed, closeFailed, failedUnits,
                   productiveUnits, cancelled, variant, navVars, methodVars, teardownFailed, dataVars>>

\* `for category in self.config.categories:` - call scrape_category, whose
\* first step is _safe_page_goto(category_url); after the last category
\* stores_scraped += 1.
CategoryLoop ==
    /\ pc = "cat_loop"
    /\ IF ci <= NumCategories
       THEN /\ StartGoto("category")
            /\ pc' = "cat_nav"
            /\ UNCHANGED stores_scraped
       ELSE /\ stores_scraped' = stores_scraped + 1
            /\ pc' = "store_sleep"
            /\ UNCHANGED navVars
    /\ UNCHANGED <<stores, si, ci, all_products, categories_scraped, session, released, exc,
                   result, opened, discoveryFailed, closeFailed, failedUnits, productiveUnits,
                   cancelled, variant, methodVars, teardownFailed, dataVars>>

\* Mutant: only units that gave products are counted.
CountOnlyProductive(n, products) == IF Len(products) > 0 THEN n + 1 ELSE n

\* Line 145: categories_scraped += 1 follows every scrape_category that
\* returned, whatever list it returned.
CountCategory(n, products) == n + 1

\* Rest of scrape_category and lines 144-145: extend and count.
CategoryFinish ==
    /\ pc = "cat_nav" /\ NavDone
    /\ \E pageOk \in BOOLEAN, cards \in 0..MaxCards :
        LET products == ScrapeCategorySync(navPc = "returned", pageOk, cards, stores[si], ci)
            failed == ~(navPc = "returned" /\ pageOk /\ cards > 0)
        IN /\ all_products' = all_products \o products
           /\ failedUnits' = IF failed THEN failedUnits \cup {<<si, ci>>} ELSE failedUnits
           /\ productiveUnits' = IF Len(products) > 0 THEN productiveUnits \cup {<<si, ci>>}
                                 ELSE productiveUnits
           /\ categories_scraped' = CountCategory(categories_scraped, products)
    /\ pc' = "cat_rate"
    /\ UNCHANGED <<stores, si, ci, stores_scraped, session, released, exc, result, opened,
                   discoveryFailed, closeFailed, cancelled, variant, navVars, methodVars, teardownFailed, dataVars>>

\* self._apply_rate_limit() between categories.
CategoryRateLimit ==
    /\ pc = "cat_rate"
    /\ ci' = ci + 1
    /\ pc' = "cat_loop"
    /\ UNCHANGED <<stores, si, all_products, stores_scraped, categories_scraped, session,
                   released, exc, result, opened, discoveryFailed, closeFailed, failedUnits,
                   productiveUnits, cancelled, variant, navVars, methodVars, teardownFailed, dataVars>>

\* Mutant: the pause is skipped after a store with a failed unit.
PausesSkippedAfterFailure(pauses, storeFailed) ==
    IF storeFailed THEN pauses ELSE Append(pauses, inter_store_pause)

\* Line 159: time.sleep(2) follows stores_scraped += 1 for every store whose
\* category loop has ended, whatever its units returned.
PausesAfterStore(pauses, storeFailed) == Append(pauses, inter_store_pause)

\* time.sleep(2) between stores.
StoreSleep ==
    /\ pc = "store_sleep"
    /\ storePauses' = PausesAfterStore(storePauses,
                                       \E c \in 1..NumCategories : <<si, c>> \in failedUnits)
    /\ si' = si + 1
    /\ pc' = "store_loop"
    /\ UNCHANGED <<stores, ci, all_products, stores_scraped, categories_scraped, session,
                   released, exc, result, opened, discoveryFailed, closeFailed, failedUnits,
                   productiveUnits, cancelled, variant, navVars, methodVars, teardownFailed,
                   extractVars, recordVars, subVars, textVars, selectVars>>

\* browser.close(), the last statement of the with block, inside the try.
CloseBrowser ==
    /\ pc = "close"
    /\ \E ok \in BOOLEAN :
        /\ session' = IF ok THEN "closed" ELSE session
        /\ closeFailed' = ~ok
        /\ exc' = IF ok THEN "none" ELSE "Exception"
    /\ pc' = "with_exit"
    /\ UNCHANGED <<stores, si, ci, all_products, stores_scraped, categories_scraped, released,
                   result, opened, discoveryFailed, failedUnits, productiveUnits, cancelled,
                   variant, navVars, methodVars, teardownFailed, dataVars>>

\* Mutant: teardown only where browser.close() stands, on the normal path.
ExitReleasesOnNormalPathOnly(e) == e = "none"

\* The context manager's __exit__ runs whenever the with block is left, with
\* or without an exception in flight, and stops playwright and its browsers.
ExitReleases(e) == TRUE

\* Leaving `with sync_playwright() as playwright:`.  An exception thrown by
\* the teardown itself replaces the one in flight.
WithExit ==
    /\ pc = "with_exit"
    /\ released' = (released \/ ExitReleases(exc))
    /\ \E ok \in BOOLEAN :
        /\ session' = IF ExitReleases(exc) /\ ok THEN "closed" ELSE session
        /\ teardownFailed' = (ExitReleases(exc) /\ ~ok)
        /\ exc' = IF ExitReleases(exc) /\ ~ok THEN "Exception" ELSE exc
        /\ pc' = AfterWith(exc')
    /\ UNCHANGED <<stores, si, ci, all_products, stores_scraped, categories_scraped, result,
                   opened, discoveryFailed, closeFailed, failedUnits, productiveUnits,
                   cancelled, variant, navVars, methodVars, dataVars>>

\* Lines 180-187: the success result is built after the try statement, so a
\* validation error of the constructor is not caught.
BuildSuccess ==
    /\ pc = "build_ok"
    /\ IF ValidProducts(all_products)
       THEN /\ result' = <<ScrapingResult(TRUE, all_products, "None",
                                          categories_scraped, stores_scraped)>>
            /\ pc' = "done"
            /\ UNCHANGED exc
       ELSE /\ exc' = "ValidationError"
            /\ pc' = "raised"
            /\ UNCHANGED result
    /\ UNCHANGED <<stores, si, ci, all_products, stores_scraped, categories_scraped, session,
                   released, opened, discoveryFailed, closeFailed, failedUnits,
                   productiveUnits, cancelled, variant, navVars, methodVars, teardownFailed, dataVars>>

\* Lines 167-177: except Exception -> the failure result.
Handler ==
    /\ pc = "handler"
    /\ result' = <<ScrapingResult(FALSE, <<>>, exc, categories_scraped, stores_scraped)>>
    /\ exc' = "none"
    /\ pc' = "done"
    /\ UNCHANGED <<stores, si, ci, all_products, stores_scraped, categories_scraped, session,
                   released, opened, discoveryFailed, closeFailed, failedUnits,
                   productiveUnits, cancelled, variant, navVars, methodVars, teardownFailed, dataVars>>

\* Blocking calls an operator interrupt can hit: page.goto, the load-state
\* wait, the back-off sleep, the rate-limit sleep and the inter-store sleep.
Suspended == \/ pc \in {"goto_base", "wait_load", "cat_rate", "store_sleep"}
             \/ pc \in {"discover_nav", "cat_nav"} /\ navPc \in {"attempt", "backoff"}

\* KeyboardInterrupt derives from BaseException: no `except Exception` on the
\* way catches it, only the with block's __exit__ runs.
Cancel ==
    /\ Suspended
    /\ ~cancelled
    /\ cancelled' = TRUE
    /\ exc' = "KeyboardInterrupt"
    /\ navPc' = IF navPc \in {"attempt", "backoff"} THEN "aborted" ELSE navPc
    /\ pc' = "with_exit"
    /\ UNCHANGED <<stores, si, ci, all_products, stores_scraped, categories_scraped, session,
                   released, result, opened, discoveryFailed, closeFailed, failedUnits,
                   productiveUnits, variant, navAttempt, navOutcomes, navWaits, navDelay,
                   navCaller, methodVars, teardownFailed, dataVars>>

Init ==
    /\ variant \in Variants
    /\ pc = "idle"
    /\ stores = <<>>
    /\ si = 0 /\ ci = 0
    /\ all_products = <<>>
    /\ stores_scraped = 0 /\ categories_scraped = 0
    /\ session = "none"
    /\ released = FALSE
    /\ exc = "none"
    /\ result = <<>>
    /\ opened = FALSE
    /\ discoveryFailed = FALSE
    /\ closeFailed = FALSE
    /\ teardownFailed = FALSE
    /\ failedUnits = {}
    /\ productiveUnits = {}
    /\ cancelled = FALSE
    /\ NavIdle
    /\ MethodIdle
    /\ DataIdle

Next ==
    \/ RunStart
    \/ AsyncEnter
    \/ OpenSession
    \/ GotoBase
    \/ WaitForPageLoad
    \/ DiscoverGoto
    \/ GotoAttempt
    \/ GotoBackoff
    \/ DiscoverFinish
    \/ StoreLoop
    \/ CategoryLoop
    \/ CategoryFinish
    \/ CategoryRateLimit
    \/ StoreSleep
    \/ CloseBrowser
    \/ WithExit
    \/ BuildSuccess
    \/ Handler

Spec == Init /\ [][Next]_vars

\* The same run with an operator interrupt possible at every blocking call.
CancelNext == Next \/ Cancel

CancelSpec == Init /\ [][CancelNext]_vars

(* ------------------- Navigator and traversal, called directly ---------- *)

\* No method call is in progress.
MethodsAtRest == navPc \in {"idle", "returned", "raised"} /\ loadPc \in {"idle", "finished"}

RunIdle == pc = "idle"

\* A caller invokes scraper._safe_page_goto(page, url).
GotoCall ==
    /\ RunIdle /\ MethodsAtRest
    /\ calls < MaxCalls
    /\ calls' = calls + 1
    /\ StartGoto("direct")
    /\ UNCHANGED <<clickIn, clickOut, loadPc, loadIter, loadWait, variant, runVars, dataVars>>

\* Operations of the mocked locator that throw when they are invoked.
ClickFaults == SUBSET {"count", "is_visible", "click"}

\* Mutant: the click is tried without asking is_visible.
safe_click_without_visibility(count, visible, faults, delay) ==
    LET found == "count" \notin faults /\ count > 0
        clicked == found /\ "click" \notin faults
    IN [value |-> clicked,
        raised |-> FALSE,
        clicks |-> IF clicked THEN 1 ELSE 0,
        delay |-> IF clicked THEN delay ELSE 0]

\* BaseScraper._safe_click on a page where `count` elements match, the first
\* one is visible or not, and the operations in `faults` throw.  `and`
\* short-circuits: is_visible is only asked when count() > 0.
safe_click(count, visible, faults, delay) ==
    LET found == "count" \notin faults /\ count > 0
        shown == found /\ "is_visible" \notin faults /\ visible
        clicked == shown /\ "click" \notin faults
    IN [value |-> clicked,
        raised |-> FALSE,
        clicks |-> IF clicked THEN 1 ELSE 0,
        delay |-> IF clicked THEN delay ELSE 0]

\* A caller invokes scraper._safe_click(page, selector); only BaseScraper has it.
ClickCall ==
    /\ RunIdle /\ MethodsAtRest
    /\ variant = "async"
    /\ calls < MaxCalls
    /\ calls' = calls + 1
    /\ \E count \in 0..MaxCards, visible \in BOOLEAN, faults \in ClickFaults,
          d \in RateLimitDelays :
        /\ clickIn' = <<[count |-> count, visible |-> visible, faults |-> faults]>>
        /\ clickOut' = <<safe_click(count, visible, faults, d)>>
    /\ UNCHANGED <<loadPc, loadIter, loadWait, variant, runVars, navVars, dataVars>>

\* random.randint(800, 1400) after the scroll, random.randint(1000, 1600) after the click.
ScrollWaits == {800, 1400}
ClickWaits == {1000, 1600}

Min(a, b) == IF a < b THEN a ELSE b

\* A caller invokes scraper._load_all_products(page); only TrulieveScraper has it.
LoadCall ==
    /\ RunIdle /\ MethodsAtRest
    /\ variant = "async"
    /\ calls < MaxCalls
    /\ calls' = calls + 1
    /\ loadPc' = "scroll"
    /\ loadIter' = 0
    /\ loadWait' = 0
    /\ UNCHANGED <<clickIn, clickOut, variant, runVars, navVars, dataVars>>

\* page.mouse.wheel(0, 40000) and the wait for lazy content; a throw ends the
\* loop through the outer except.
LoadScroll ==
    /\ loadPc = "scroll"
    /\ \/ \E w \in ScrollWaits : loadWait' = w /\ loadPc' = "check"
       \/ loadWait' = loadWait /\ loadPc' = "finished"
    /\ UNCHANGED <<calls, clickIn, clickOut, loadIter, variant, runVars, navVars, dataVars>>

\* Whether the loop goes on to click: the button must be counted and visible.
LoadMoreOffered(o) == o = "visible_button"

\* Look for the "Load More" button: absent, hidden or a throwing locator end the loop.
LoadCheck ==
    /\ loadPc = "check"
    /\ \E o \in {"visible_button", "hidden_button", "absent", "error"} :
        loadPc' = IF LoadMoreOffered(o) THEN "click" ELSE "finished"
    /\ UNCHANGED <<calls, clickIn, clickOut, loadIter, loadWait, variant, runVars, navVars, dataVars>>

\* Position after a successful click and wait: `continue`, whatever the number
\* of iterations made so far.
AfterLoadClick(iter) == "scroll"

\* load_more_btn.first.click() and the wait; a throw breaks the loop.
LoadClick ==
    /\ loadPc = "click"
    /\ \/ \E w \in ClickWaits :
            /\ loadWait' = w
            /\ loadIter' = Min(loadIter + 1, MaxIter)
            /\ loadPc' = AfterLoadClick(loadIter + 1)
       \/ loadWait' = loadWait /\ loadIter' = loadIter /\ loadPc' = "finished"
    /\ UNCHANGED <<calls, clickIn, clickOut, variant, runVars, navVars, dataVars>>

LoadStep == LoadScroll \/ LoadCheck \/ LoadClick

MethodNext ==
    \/ GotoCall
    \/ GotoAttempt
    \/ GotoBackoff
    \/ GotoRateLimit
    \/ ClickCall
    \/ LoadCall
    \/ LoadScroll
    \/ LoadCheck
    \/ LoadClick

MethodSpec == Init /\ [][MethodNext]_vars

\* A started _load_all_products keeps running: its loop is never descheduled for good.
FairMethodSpec == MethodSpec /\ WF_vars(LoadStep)

(* ------------------- Store Discovery, called directly ------------------ *)

\* href attributes of the anchors matched by "a[href^='/dispensaries/']": a
\* path, and whether the path carries one of the Florida slugs
\* looks_like_florida searches for.
StoreHrefs == [path : 1..MaxHrefs, fl : BOOLEAN]

\* Link texts after whitespace clean-up: word 0 is the blank text, and a text
\* carries a Florida marker (", FL", " FL ", trailing " FL") or not.
StoreTexts == {[word |-> 0, fl |-> FALSE]} \cup [word : 1..MaxTexts, fl : BOOLEAN]

\* An anchor of the directory page; `faulty`: text_content() throws.
Anchors == [href : StoreHrefs, text : StoreTexts, faulty : BOOLEAN]

AnchorLists == UNION {[1..n -> Anchors] : n \in 0..MaxAnchors}

\* looks_like_florida(href, text): a marker in the text or a slug in the href.
looks_like_florida(href, text) == text.fl \/ href.fl

\* StoreInfo(name=..., url=urljoin(base_url, href)).
StoreInfo(name, href) == [name |-> name, url |-> href]

\* Synchronous loop over the anchors: an href is put into seen_hrefs before
\* the text is read, and an anchor with unreadable or blank text adds nothing.
RECURSIVE SyncRawStores(_, _)
SyncRawStores(as, seen_hrefs) ==
    IF as = <<>> THEN <<>>
    ELSE LET a == Head(as) IN
         IF a.href \in seen_hrefs THEN SyncRawStores(Tail(as), seen_hrefs)
         ELSE LET rest == SyncRawStores(Tail(as), seen_hrefs \cup {a.href}) IN
              IF ~a.faulty /\ a.text.word # 0
              THEN <<[href |-> a.href, text |-> a.text]>> \o rest
              ELSE rest

\* Synchronous extract_store_links after the navigation: raw links, Florida
\* filter, one StoreInfo per remaining link.
SyncStoreLinks(as) ==
    LET fl_stores == SelectSeq(SyncRawStores(as, {}),
                               LAMBDA st : looks_like_florida(st.href, st.text))
    IN [i \in 1..Len(fl_stores) |-> StoreInfo(fl_stores[i].text, fl_stores[i].href)]

\* Asynchronous loop over the anchors: only an href that passed the Florida
\* test is put into seen_hrefs; href and text are read before anything else.
RECURSIVE AsyncRawStores(_, _)
AsyncRawStores(as, seen_hrefs) ==
    IF as = <<>> THEN <<>>
    ELSE LET a == Head(as) IN
         IF ~a.faulty /\ a.href \notin seen_hrefs /\ looks_like_florida(a.href, a.text)
         THEN <<StoreInfo(a.text, a.href)>> \o AsyncRawStores(Tail(as), seen_hrefs \cup {a.href})
         ELSE AsyncRawStores(Tail(as), seen_hrefs)

\* "Remove duplicates by name": the first store of every name is kept.
RECURSIVE UniqueByName(_, _)
UniqueByName(raw_stores, seen_names) ==
    IF raw_stores = <<>> THEN <<>>
    ELSE LET st == Head(raw_stores) IN
         IF st.name \in seen_names THEN UniqueByName(Tail(raw_stores), seen_names)
         ELSE <<st>> \o UniqueByName(Tail(raw_stores), seen_names \cup {st.name})

\* Asynchronous extract_store_links after the navigation.
AsyncStoreLinks(as) == UniqueByName(AsyncRawStores(as, {}), {})

\* extract_store_links of either variant on a page with anchors `as`.
extract_store_links(v, navOk, pageOk, as) ==
    ExtractStoreLinks(navOk, pageOk,
                      IF v = "sync" THEN SyncStoreLinks(as) ELSE AsyncStoreLinks(as))

\* Nothing has been called on a mocked page yet.
ExtractionIdle == discOut = <<>> /\ cardOut = <<>> /\ catOut = <<>>

\* A caller invokes scraper.extract_store_links(page) on a mocked page.
DiscoveryCall ==
    /\ RunIdle /\ ExtractionIdle
    /\ \E navOk \in BOOLEAN, pageOk \in BOOLEAN, as \in AnchorLists :
        /\ anchors' = <<as>>
        /\ discOut' = <<extract_store_links(variant, navOk, pageOk, as)>>
    /\ UNCHANGED <<cardIn, cardOut, pageCards, catOut, variant, runVars, navVars, methodVars,
                   recordVars, subVars, paceVars, textVars, selectVars>>

(* ------------------------------ data model ----------------------------- *)
\* Optional values are <<>> (None) or <<v>>.  Prices are in cents, weights
\* in tenths of a gram, price_per_g in cents per gram.

\* ProductData(...) with every field given.
ProductData(store, subcategory, name, brand, strain_type, thc_pct, size_raw, grams, price, price_per_g, url) ==
    [kind |-> "ProductData", store |-> store, subcategory |-> subcategory, name |-> name,
     brand |-> brand, strain_type |-> strain_type, thc_pct |-> thc_pct,
     size_raw |-> size_raw, grams |-> grams, price |-> price,
     price_per_g |-> price_per_g, url |-> url]

\* Python truthiness of an Optional[float]: None and 0.0 are false.
Truthy(opt) == opt # <<>> /\ opt[1] # 0

\* n / d rounded to the nearest integer, ties to the even one (round()).
RoundHalfEven(n, d) ==
    LET q == n \div d
        r == n % d
    IN IF 2 * r < d THEN q
       ELSE IF 2 * r > d THEN q + 1
       ELSE IF q % 2 = 0 THEN q ELSE q + 1

\* round(price / grams, 2), in cents, for a price in cents and a weight in
\* tenths of a gram.
PricePerGram(price, grams) == RoundHalfEven(10 * price, grams)

\* ProductData.calculate_price_per_g: assigns only when the condition holds
\* and leaves the field as it is otherwise.
calculate_price_per_g(p) ==
    IF Truthy(p.price) /\ Truthy(p.grams) /\ p.grams[1] > 0
    THEN [p EXCEPT !.price_per_g = <<PricePerGram(p.price[1], p.grams[1])>>]
    ELSE p

(* ------------------- Product Assembler, called directly ---------------- *)

\* SIZE_MAP, in tenths of a gram.
SIZE_MAP == [sz \in {"0.5g", "1g", "2g", "3.5g", "7g", "10g", "14g", "28g"} |->
                CASE sz = "0.5g" -> 5
                  [] sz = "1g" -> 10
                  [] sz = "2g" -> 20
                  [] sz = "3.5g" -> 35
                  [] sz = "7g" -> 70
                  [] sz = "10g" -> 100
                  [] sz = "14g" -> 140
                  [] sz = "28g" -> 280]

\* grams_from_size: None for no size, the table entry otherwise.
grams_from_size(size) == IF size = <<>> THEN <<>> ELSE <<SIZE_MAP[size[1]]>>

\* href of a product link: the slug behind "/product/" and an optional query.
ProductHrefs == [slug : 1..MaxSlugs, query : BOOLEAN]

\* product_slug: "" (0) for no href, else the part behind "/product/" with
\* query and fragment cut off.
product_slug(href) == IF href = <<>> THEN 0 ELSE href[1].slug

\* What a detail-page visit can do: show the value, not show it, or fail
\* (timeout, navigation error, closed context).
PdpOutcomes == {"found", "absent", "error"}

PdpPrice == 2000
PdpBrand == "Sunshine Cannabis"

\* Detail pages a lookup leaves open.  page.close() stands on the return
\* paths of the try body only; when page.goto or a read of the opened page
\* throws, control goes from the opened page straight to the except branch,
\* which returns None without closing it.
PagesLeftOpen(outcome) == IF outcome = "error" THEN 1 ELSE 0

\* Mutant: the failure of the detail page is not caught in the lookup.
extract_price_from_pdp_uncaught(outcome) ==
    [raised |-> outcome = "error",
     value |-> IF outcome = "found" THEN <<PdpPrice>> ELSE <<>>,
     open_pages |-> PagesLeftOpen(outcome)]

\* extract_price_from_pdp: every exception is caught and gives None.
extract_price_from_pdp(outcome) ==
    [raised |-> FALSE,
     value |-> IF outcome = "found" THEN <<PdpPrice>> ELSE <<>>,
     open_pages |-> PagesLeftOpen(outcome)]

\* extract_brand_from_pdp: every exception is caught and gives None.
extract_brand_from_pdp(outcome) ==
    [raised |-> FALSE,
     value |-> IF outcome = "found" THEN <<PdpBrand>> ELSE <<>>,
     open_pages |-> PagesLeftOpen(outcome)]

\* A product card as the extractors see it.  links: name links inside the
\* card; name: stripped text of the first one ("" when blank or missing);
\* href: its href; size, price, brand, strain: what the card-level extractors
\* find; faulty: card.inner_text() throws.
Cards == [links : 0..1, name : {"", "Blue Dream"}, href : {<<>>, <<[slug |-> 1, query |-> FALSE]>>},
          size : {<<>>, <<"1g">>, <<"3.5g">>}, price : {<<>>, <<0>>, <<3500>>},
          brand : {<<>>, <<"Trulieve">>}, strain : {<<>>, <<"Hybrid">>}, faulty : BOOLEAN]

\* The browser context handed to the assembler: None, or one whose detail
\* pages behave as given.
Contexts == {<<>>} \cup {<<c>> : c \in [price : PdpOutcomes, brand : PdpOutcomes]}

\* extract_product_data_from_card, awaited.  The whole body stands in one
\* try/except Exception that returns None.
extract_product_data_from_card(card, subcategory, store_name, context) ==
    LET none == [raised |-> FALSE, value |-> <<>>, open_pages |-> 0]
        lookups == context # <<>> /\ card.href # <<>>
                   /\ (card.price = <<>> \/ card.brand = <<>>)
        pdp_price == IF lookups /\ card.price = <<>>
                     THEN extract_price_from_pdp(context[1].price) ELSE none
        pdp_brand == IF lookups /\ card.brand = <<>>
                     THEN extract_brand_from_pdp(context[1].brand) ELSE none
        price == IF card.price # <<>> THEN card.price ELSE pdp_price.value
        brand == IF card.brand # <<>> THEN card.brand ELSE pdp_brand.value
        product == ProductData(store_name, subcategory, card.name, brand, card.strain, <<>>,
                               card.size, grams_from_size(card.size), price, <<>>, card.href)
        open_pages == pdp_price.open_pages + pdp_brand.open_pages
    IN IF card.links = 0 THEN none
       ELSE IF card.name = "" THEN none
       ELSE IF card.faulty THEN none
       ELSE IF pdp_price.raised \/ pdp_brand.raised
            THEN [raised |-> FALSE, value |-> <<>>, open_pages |-> open_pages]
       ELSE [raised |-> FALSE, value |-> <<calculate_price_per_g(product)>>,
             open_pages |-> open_pages]

\* A caller awaits extract_product_data_from_card on a mocked card.
AssembleCall ==
    /\ RunIdle /\ ExtractionIdle
    /\ \E card \in Cards, context \in Contexts :
        /\ cardIn' = <<[card |-> card, context |-> context]>>
        /\ cardOut' = <<extract_product_data_from_card(card, 1, 1, context)>>
    /\ UNCHANGED <<anchors, discOut, pageCards, catOut, variant, runVars, navVars, methodVars,
                   recordVars, subVars, paceVars, textVars, selectVars>>

(* ------------------- Category Traversal, called directly --------------- *)

\* Cards of a category page: with card price and brand, so that no detail
\* page is visited.
PageCards == {c \in [links : 0..1, name : {"", "Blue Dream"},
                     href : {<<h>> : h \in [slug : 1..MaxSlugs, query : {FALSE}]},
                     size : {<<>>, <<"3.5g">>}, price : {<<3500>>},
                     brand : {<<"Trulieve">>}, strain : {<<"Hybrid">>}, faulty : BOOLEAN] : TRUE}

PageCardLists == UNION {[1..n -> PageCards] : n \in 0..MaxCards}

\* context=page.context of the traversal's page.
PageContext == <<[price |-> "absent", brand |-> "absent"]>>

\* Loop of the asynchronous scrape_category over the name links: a card
\* whose assembler result is None is skipped, a key seen before in this call
\* is skipped, everything else is appended.
RECURSIVE AsyncProducts(_, _, _, _)
AsyncProducts(cards, seen_keys, store_name, subcategory) ==
    IF cards = <<>> THEN <<>>
    ELSE LET card == Head(cards)
             product == extract_product_data_from_card(card, subcategory, store_name,
                                                       PageContext).value
             key == <<store_name, product_slug(card.href), product[1].size_raw, subcategory>>
         IN IF product = <<>> \/ key \in seen_keys
            THEN AsyncProducts(Tail(cards), seen_keys, store_name, subcategory)
            ELSE product \o AsyncProducts(Tail(cards), seen_keys \cup {key},
                                          store_name, subcategory)

\* List returned by TrulieveScraper.scrape_category; a failed store
\* selection is only logged, a failed navigation or link query gives [].
ScrapeCategoryAsync(navOk, pageOk, cards, store_name, subcategory) ==
    IF navOk /\ pageOk THEN AsyncProducts(cards, {}, store_name, subcategory) ELSE <<>>

\* A caller invokes scraper.scrape_category(page, category, store) on a
\* mocked page.
CategoryCall ==
    /\ RunIdle /\ ExtractionIdle
    /\ \E navOk \in BOOLEAN, pageOk \in BOOLEAN, cards \in PageCardLists :
        /\ pageCards' = <<[navOk |-> navOk, pageOk |-> pageOk, cards |-> cards]>>
        /\ catOut' = <<IF variant = "sync"
                       THEN ScrapeCategorySync(navOk, pageOk, Len(cards), 1, 1)
                       ELSE ScrapeCategoryAsync(navOk, pageOk, cards, 1, 1)>>
    /\ UNCHANGED <<anchors, discOut, cardIn, cardOut, variant, runVars, navVars, methodVars,
                   recordVars, subVars, paceVars, textVars, selectVars>>

ExtractionNext ==
    \/ DiscoveryCall
    \/ AssembleCall
    \/ CategoryCall

\* extract_store_links, extract_product_data_from_card and scrape_category,
\* each called on a mocked page.
ExtractionSpec == Init /\ [][ExtractionNext]_vars

(* --------------------- data model objects, used directly --------------- *)

\* Values given to the Optional[float] fields of a ProductData.
OptPrices == {<<>>, <<0>>, <<3500>>}
OptGrams == {<<>>, <<0>>, <<35>>}
OptPricePerG == {<<>>, <<1000>>}

\* ProductData(store=..., subcategory=..., name=..., price=..., grams=...,
\* price_per_g=...): every Optional field is stored as given.
NewProductData(price, grams, price_per_g) ==
    ProductData(1, 1, "Blue Dream", <<>>, <<>>, <<>>, <<>>, grams, price, price_per_g, <<>>)

\* A caller constructs a ProductData.
ConstructRecord ==
    /\ RunIdle
    /\ record = <<>>
    /\ \E price \in OptPrices, grams \in OptGrams, price_per_g \in OptPricePerG :
        record' = <<NewProductData(price, grams, price_per_g)>>
    /\ recLast' = "construct"
    /\ UNCHANGED <<built, variant, runVars, navVars, methodVars, extractVars, subVars, paceVars, textVars, selectVars>>

\* product.price = v: plain attribute assignment, nothing is recomputed.
AssignPrice ==
    /\ record # <<>>
    /\ \E price \in OptPrices :
        /\ price # record[1].price
        /\ record' = <<[record[1] EXCEPT !.price = price]>>
    /\ recLast' = "assign"
    /\ UNCHANGED <<built, variant, runVars, navVars, methodVars, extractVars, subVars, paceVars, textVars, selectVars>>

\* product.grams = v.
AssignGrams ==
    /\ record # <<>>
    /\ \E grams \in OptGrams :
        /\ grams # record[1].grams
        /\ record' = <<[record[1] EXCEPT !.grams = grams]>>
    /\ recLast' = "assign"
    /\ UNCHANGED <<built, variant, runVars, navVars, methodVars, extractVars, subVars, paceVars, textVars, selectVars>>

\* product.calculate_price_per_g().
CalculatePricePerG ==
    /\ record # <<>>
    /\ record' = <<calculate_price_per_g(record[1])>>
    /\ recLast' = "calculate"
    /\ UNCHANGED <<built, variant, runVars, navVars, methodVars, extractVars, subVars, paceVars, textVars, selectVars>>

\* Rows of a products CSV: the required columns filled or not, the price
\* columns as the file has them (NaN is read as None).
CsvRows == [required : BOOLEAN, price : OptPrices, grams : OptGrams, price_per_g : OptPricePerG]

\* load_products_from_csv on one row: ProductData(**row); a row that fails
\* validation is skipped.
LoadedRecord(row) ==
    IF row.required THEN <<NewProductData(row.price, row.grams, row.price_per_g)>> ELSE <<>>

\* A caller loads a one-row CSV file.
LoadFromCsv ==
    /\ RunIdle
    /\ record = <<>>
    /\ \E row \in CsvRows : record' = LoadedRecord(row)
    /\ recLast' = "csv"
    /\ UNCHANGED <<built, variant, runVars, navVars, methodVars, extractVars, subVars, paceVars, textVars, selectVars>>

\* A caller constructs ScrapingResult(success=..., products=[...]) from n
\* valid records, as the storage tests and run_scraping_workflow do.
ConstructResult ==
    /\ RunIdle
    /\ built = <<>>
    /\ \E success \in BOOLEAN, n \in 0..MaxCards :
        built' = <<ScrapingResult(success, [i \in 1..n |-> NewProductData(<<3500>>, <<35>>, <<>>)],
                                  "None", 0, 0)>>
    /\ UNCHANGED <<record, recLast, variant, runVars, navVars, methodVars, extractVars, subVars, paceVars, textVars, selectVars>>

RecordNext ==
    \/ ConstructRecord
    \/ AssignPrice
    \/ AssignGrams
    \/ CalculatePricePerG
    \/ LoadFromCsv
    \/ ConstructResult

\* The data model objects constructed and changed by a caller.
RecordSpec == Init /\ [][RecordNext]_vars

(* --------------------------- subprocess variant ------------------------ *)

\* The except branch of main(): the error document.
error_result(e) ==
    [success |-> FALSE, products |-> <<>>, categories_scraped |-> 0, stores_scraped |-> 0,
     error_message |-> e]

\* Lines 53-77 of main(): the document made of a returned result.  The list
\* comprehension reads p.thc_percentage, p.size, p.category, p.store_name,
\* p.store_url and p.product_url, which ProductData does not have, so any
\* product raises AttributeError and the except branch prints the error
\* document.
result_dict(res) ==
    IF Len(res.products) > 0 THEN error_result("AttributeError")
    ELSE [success |-> res.success, products |-> <<>>,
          categories_scraped |-> res.categories_scraped,
          stores_scraped |-> res.stores_scraped, error_message |-> res.error_message]

\* main() of standalone_scraper.py after scraper.scrape_all_categories() has
\* ended: the result is printed as JSON, an exception the run let out is
\* caught and printed as the error document.
StandaloneMain ==
    /\ variant = "sync"
    /\ pc \in {"done", "raised"}
    /\ stdout = <<>>
    /\ stdout' = <<IF pc = "done" THEN result_dict(result[1]) ELSE error_result(exc)>>
    /\ UNCHANGED <<hostResult, variant, runVars, navVars, methodVars, extractVars, recordVars, paceVars, textVars, selectVars>>

\* run_scraping_workflow, lines 217-240: every entry of "products" becomes
\* ProductData(name=..., thc_percentage=..., store_name=...) without the
\* required fields store and subcategory, which raises ValidationError.
RebuiltResult(doc) ==
    IF Len(doc.products) > 0
    THEN ScrapingResult(FALSE, <<>>, "ValidationError", 0, 0)
    ELSE ScrapingResult(doc.success, <<>>, doc.error_message,
                        doc.categories_scraped, doc.stores_scraped)

\* run_scraping_workflow after subprocess.run: a time-out or a non-zero exit
\* code gives the failure result, otherwise the document is parsed.
HostRebuild ==
    /\ stdout # <<>>
    /\ hostResult = <<>>
    /\ \E procOk \in BOOLEAN :
        hostResult' = <<IF procOk THEN RebuiltResult(stdout[1])
                        ELSE ScrapingResult(FALSE, <<>>, "Exception", 0, 0)>>
    /\ UNCHANGED <<stdout, variant, runVars, navVars, methodVars, extractVars, recordVars, paceVars, textVars, selectVars>>

SubprocessNext ==
    \/ Next
    \/ StandaloneMain
    \/ HostRebuild

\* The run inside the subprocess, the document it prints and the host that
\* reads it.
SubprocessSpec == Init /\ [][SubprocessNext]_vars

(* ------------------- store selection across category calls ------------- *)

\* What _set_store_location meets: the selection succeeds, the navigation to
\* the store page fails, the "Shop At This Store" button is missing, or the
\* click on it throws.
SelectionOutcomes == {"ok", "nav_fail", "no_button", "click_fail"}

\* _set_store_location: True only after the button was clicked.
set_store_location(outcome) == outcome = "ok"

\* Store the site has selected for the session after _set_store_location:
\* only a click on the button changes it.
SelectedAfter(current, store, outcome) == IF set_store_location(outcome) THEN store ELSE current

\* Store whose products the category page shows.  The synchronous variant
\* loads f"{store.url}{category_config['url']}", a page of the store itself;
\* the asynchronous one loads urljoin(base_url, category_config["url"]), on
\* which the site shows the products of the store selected for the session
\* (0: none was selected).
ServedStore(v, current, store, outcome) == IF v = "sync" THEN store ELSE SelectedAfter(current, store, outcome)

\* scrape_category(page, category, store) on the session's page: the
\* asynchronous variant first tries to select the store and goes on whatever
\* the answer ("continuing anyway"); every product of the loaded page is
\* recorded with store=store.name.
SelectAndScrape ==
    /\ RunIdle /\ ExtractionIdle
    /\ selCalls < MaxSelCalls
    /\ \E store \in StoreNames, subcategory \in 1..NumCategories,
          outcome \in SelectionOutcomes, navOk \in BOOLEAN, cards \in 0..MaxCards :
        /\ selected' = IF variant = "async" THEN SelectedAfter(selected, store, outcome)
                       ELSE selected
        /\ recorded' = IF navOk /\ cards > 0
                       THEN recorded \cup {[store |-> store, subcategory |-> subcategory,
                                            served |-> ServedStore(variant, selected, store, outcome)]}
                       ELSE recorded
        /\ selCalls' = selCalls + 1
    /\ UNCHANGED <<variant, runVars, navVars, methodVars, extractVars, recordVars,
                   subVars, paceVars, textVars>>

SelectionNext == SelectAndScrape

\* A sequence of scrape_category calls on one browser session.
SelectionSpec == Init /\ [][SelectionNext]_vars

(* ------------------- text extractors, called directly ------------------ *)

\* A text is a sequence of characters (one-character strings; a keyword of
\* the strain and potency texts is written as one symbol).
TextsOver(chars, n) == UNION {[1..k -> chars] : k \in 0..n}

Digits == {"0", "1", "2", "3", "4", "5", "6", "7", "8", "9"}

\* Characters the regular expressions' \s matches.
Whitespace == {" "}

DigitValue(c) == CASE c = "0" -> 0 [] c = "1" -> 1 [] c = "2" -> 2 [] c = "3" -> 3 [] c = "4" -> 4 [] c = "5" -> 5 [] c = "6" -> 6 [] c = "7" -> 7 [] c = "8" -> 8 [] c = "9" -> 9

\* Index of the last character of the longest run of characters of `class`
\* that starts at index i (i - 1 when the run is empty): a greedy `class*`.
SpanEnd(text, i, class) == CHOOSE e \in (i - 1)..Len(text) : (\A k \in i..e : text[k] \in class) /\ (e = Len(text) \/ text[e + 1] \notin class)

\* Value of the decimal numeral text[a..b].
RECURSIVE NumeralValue(_, _, _)
NumeralValue(text, a, b) == IF b < a THEN 0 ELSE 10 * NumeralValue(text, a, b - 1) + DigitValue(text[b])

\* PRICE_RE = \$\s*([0-9]+(?:\.[0-9]{2})?) tried at index i: whether it
\* matches there, where the match ends and float(group(1)), in cents.
PRICE_RE(text, i) ==
    LET d == SpanEnd(text, i + 1, Whitespace) + 1
        e == SpanEnd(text, d, Digits)
        cents == e + 3 <= Len(text) /\ text[e + 1] = "." /\ text[e + 2] \in Digits /\ text[e + 3] \in Digits
    IN IF text[i] = "$" /\ e >= d
       THEN [matched |-> TRUE,
             end |-> IF cents THEN e + 3 ELSE e,
             value |-> 100 * NumeralValue(text, d, e) + (IF cents THEN NumeralValue(text, e + 2, e + 3) ELSE 0)]
       ELSE [matched |-> FALSE, end |-> i, value |-> 0]

\* PRICE_RE.finditer(text) from index i on: the prices of the successive
\* non-overlapping matches, left to right.
RECURSIVE PriceMatches(_, _)
PriceMatches(text, i) ==
    IF i > Len(text) THEN <<>>
    ELSE LET match == PRICE_RE(text, i)
         IN IF match.matched THEN <<match.value>> \o PriceMatches(text, match.end + 1)
            ELSE PriceMatches(text, i + 1)

Range(seq) == {seq[k] : k \in 1..Len(seq)}

\* Mutant: the first price of the text is the effective one.
FirstPrice(prices) == IF prices = <<>> THEN <<>> ELSE <<prices[1]>>

\* `min(prices) if prices else None`.
EffectivePrice(prices) == IF prices = <<>> THEN <<>> ELSE <<CHOOSE p \in Range(prices) : \A q \in Range(prices) : p <= q>>

\* The price of a text blob, as extract_price_from_card takes it from the
\* card's texts and extract_price_from_pdp from the detail page's body.
extract_price_from_text(text) == EffectivePrice(PriceMatches(text, 1))

PriceChars == {"$", " ", ".", "1", "2", "w"}

PriceTexts == TextsOver(PriceChars, MaxPriceLen)

\* No extractor was called yet.  The extractors are plain functions of their
\* arguments, the same for both scraper variants; the calls below are made
\* beside the asynchronous one, whose traversal reaches all of them.
TextIdle == textIn = <<>> /\ textOut = <<>> /\ variant = "async"

\* A caller hands a text to the price extraction.
PriceCall ==
    /\ RunIdle /\ ExtractionIdle /\ TextIdle
    /\ \E text \in PriceTexts :
        /\ textIn' = <<[op |-> "price", text |-> text]>>
        /\ textOut' = <<extract_price_from_text(text)>>
    /\ UNCHANGED <<variant, runVars, navVars, methodVars, extractVars, recordVars,
                   subVars, paceVars, selectVars>>

\* Pieces the potency texts are put together from: the word THC alone and
\* followed by a blank, blank, dash, decimal point, a digit, the percent
\* sign and two percentages.
ThcPieces == {<<"THC">>, <<"THC", " ">>, <<" ">>, <<"-">>, <<".">>, <<"1">>, <<"%">>, <<"1", "%">>, <<"2", "%">>}

ThcChars == {"THC", " ", "-", ".", "1", "2", "%"}

\* Characters [^0-9] matches.
NonDigits == ThcChars \ Digits

\* The strain keywords, in the order extract_strain_type_from_text tries them.
StrainTypes == <<"Indica", "Sativa", "Hybrid">>

\* Symbols of the strain texts: keywords (one in capitals), blank, a letter.
StrainChars == {"Indica", "INDICA", "Sativa", "Hybrid", " ", "x"}

\* Characters \w matches: the letters of a word and the digits.
WordChars == {"THC", "x", "Indica", "INDICA", "Sativa", "Hybrid"} \cup Digits

\* re.I: a word in capitals matches the pattern's spelling.
CaseFold(c) == IF c = "INDICA" THEN "Indica" ELSE c

RECURSIVE Flatten(_)
Flatten(pieces) == IF pieces = <<>> THEN <<>> ELSE Head(pieces) \o Flatten(Tail(pieces))

ThcTexts == {Flatten(pieces) : pieces \in TextsOver(ThcPieces, MaxThcPieces)}

\* \bTHC\b at index i: the word THC with no word character on either side.
WholeWordAt(text, i, word) ==
    /\ CaseFold(text[i]) = word
    /\ i = 1 \/ text[i - 1] \notin WordChars
    /\ i = Len(text) \/ text[i + 1] \notin WordChars

\* float() of the numeral with whole part text[a..b] and decimals
\* text[c..d] (none when d < c): trailing zeros of the decimals do not
\* change the value.
RECURSIVE FloatOf(_, _, _, _, _)
FloatOf(text, a, b, c, d) ==
    IF d >= c /\ text[d] = "0" THEN FloatOf(text, a, b, c, d - 1)
    ELSE [whole |-> NumeralValue(text, a, b), decimals |-> SubSeq(text, c, d)]

\* ([0-9]+(?:\.[0-9]+)?)\s*% tried at index a: whether it matches there, the
\* index of the "%" and the value of the group.
PercentAt(text, a) ==
    LET b == SpanEnd(text, a, Digits)
        frac == b + 2 <= Len(text) /\ text[b + 1] = "." /\ text[b + 2] \in Digits
        d == IF frac THEN SpanEnd(text, b + 2, Digits) ELSE b
        p == SpanEnd(text, d + 1, Whitespace) + 1
    IN IF b >= a /\ p <= Len(text) /\ text[p] = "%"
       THEN [matched |-> TRUE, end |-> p,
             value |-> IF frac THEN FloatOf(text, a, b, b + 2, d) ELSE FloatOf(text, a, b, 1, 0)]
       ELSE [matched |-> FALSE, end |-> a, value |-> <<>>]

\* THC_SINGLE_RE = \bTHC\b[^0-9]*([0-9]+(?:\.[0-9]+)?)\s*% tried at index i.
THC_SINGLE_RE(text, i) ==
    LET first == PercentAt(text, SpanEnd(text, i + 1, NonDigits) + 1)
    IN IF WholeWordAt(text, i, "THC") /\ first.matched
       THEN [matched |-> TRUE, end |-> first.end, group1 |-> first.value]
       ELSE [matched |-> FALSE, end |-> i, group1 |-> <<>>]

\* THC_RANGE_RE: THC_SINGLE_RE followed by [^0-9]+([0-9]+(?:\.[0-9]+)?)\s*%,
\* tried at index i.
THC_RANGE_RE(text, i) ==
    LET single == THC_SINGLE_RE(text, i)
        gap == SpanEnd(text, single.end + 1, NonDigits)
        second == PercentAt(text, gap + 1)
    IN IF single.matched /\ gap > single.end /\ second.matched
       THEN [matched |-> TRUE, end |-> second.end, group1 |-> single.group1, group2 |-> second.value]
       ELSE [matched |-> FALSE, end |-> i, group1 |-> <<>>, group2 |-> <<>>]

\* What a search that finds no match gives (None).
NoMatch == [matched |-> FALSE, end |-> 0, group1 |-> <<>>, group2 |-> <<>>]

\* THC_SINGLE_RE.search(text): the leftmost match, from index i on.
RECURSIVE SearchSingle(_, _)
SearchSingle(text, i) ==
    IF i > Len(text) THEN NoMatch
    ELSE IF THC_SINGLE_RE(text, i).matched THEN THC_SINGLE_RE(text, i)
    ELSE SearchSingle(text, i + 1)

\* THC_RANGE_RE.search(text): the leftmost match, from index i on.
RECURSIVE SearchRange(_, _)
SearchRange(text, i) ==
    IF i > Len(text) THEN NoMatch
    ELSE IF THC_RANGE_RE(text, i).matched THEN THC_RANGE_RE(text, i)
    ELSE SearchRange(text, i + 1)

\* Mutant: the upper bound of a range is returned.
RangeUpperBound(range_match) == range_match.group2

\* float(range_match.group(1)).
RangePotency(range_match) == range_match.group1

\* extract_thc_from_text: the range pattern first, then the single value.
extract_thc_from_text(text) ==
    IF text = <<>> THEN <<>>
    ELSE IF SearchRange(text, 1).matched THEN <<RangePotency(SearchRange(text, 1))>>
    ELSE IF SearchSingle(text, 1).matched THEN <<SearchSingle(text, 1).group1>>
    ELSE <<>>

\* A caller hands a text to the potency extraction.
ThcCall ==
    /\ RunIdle /\ ExtractionIdle /\ TextIdle
    /\ \E text \in ThcTexts :
        /\ textIn' = <<[op |-> "thc", text |-> text]>>
        /\ textOut' = <<extract_thc_from_text(text)>>
    /\ UNCHANGED <<variant, runVars, navVars, methodVars, extractVars, recordVars,
                   subVars, paceVars, selectVars>>

StrainTexts == TextsOver(StrainChars, MaxStrainLen)

\* re.search(rf"\b{strain_type}\b", text, re.I) is not None.
HasWholeWord(text, word) == \E i \in 1..Len(text) : WholeWordAt(text, i, word)

\* extract_strain_type_from_text: the keywords are tried in the order of
\* StrainTypes and the first that occurs anywhere in the text is returned,
\* in the spelling of the list.
extract_strain_type_from_text(text) ==
    IF text = <<>> THEN <<>>
    ELSE IF \A k \in 1..Len(StrainTypes) : ~HasWholeWord(text, StrainTypes[k]) THEN <<>>
    ELSE <<StrainTypes[CHOOSE k \in 1..Len(StrainTypes) :
                /\ HasWholeWord(text, StrainTypes[k])
                /\ \A j \in 1..(k - 1) : ~HasWholeWord(text, StrainTypes[j])]>>

\* A caller hands a text to the strain-type extraction.
StrainCall ==
    /\ RunIdle /\ ExtractionIdle /\ TextIdle
    /\ \E text \in StrainTexts :
        /\ textIn' = <<[op |-> "strain", text |-> text]>>
        /\ textOut' = <<extract_strain_type_from_text(text)>>
    /\ UNCHANGED <<variant, runVars, navVars, methodVars, extractVars, recordVars,
                   subVars, paceVars, selectVars>>

\* str.upper() and str.lower(), character by character.
UpperChar(c) == CASE c = "f" -> "F" [] c = "l" -> "L" [] c = "x" -> "X" [] c = "orida" -> "ORIDA" [] OTHER -> c

LowerChar(c) == CASE c = "F" -> "f" [] c = "L" -> "l" [] c = "X" -> "x" [] c = "ORIDA" -> "orida" [] OTHER -> c

\* Mutant: the text is compared as it was written.
UpperSkipped(s) == s

Upper(s) == [k \in 1..Len(s) |-> UpperChar(s[k])]

Lower(s) == [k \in 1..Len(s) |-> LowerChar(s[k])]

\* `sub in s`.
Contains(s, sub) == \E k \in 0..(Len(s) - Len(sub)) : SubSeq(s, k + 1, k + Len(sub)) = sub

\* s.endswith(sub).
EndsWith(s, sub) == Len(s) >= Len(sub) /\ SubSeq(s, Len(s) - Len(sub) + 1, Len(s)) = sub

\* `value or ""` of an Optional[str] (<<>> is None, <<s>> the string s).
OrEmpty(opt) == IF opt = <<>> THEN <<>> ELSE opt[1]

\* looks_like_florida(href, text) on the characters of href and text.
looks_like_florida_str(href, text) ==
    LET t == Upper(OrEmpty(text))
        h == Lower(OrEmpty(href))
    IN \/ Contains(t, <<",", " ", "F", "L">>)
       \/ EndsWith(t, <<" ", "F", "L">>)
       \/ Contains(t, <<" ", "F", "L", " ">>)
       \/ Contains(h, <<"/", "f", "l", "orida">>) \/ Contains(h, <<"-", "f", "l", "-">>)
       \/ EndsWith(h, <<"/", "f", "l">>) \/ EndsWith(h, <<"-", "f", "l">>)

RegionTextChars == {",", " ", "F", "L", "f", "l", "x"}

RegionHrefChars == {"/", "-", "F", "L", "f", "l", "orida"}

\* Optional[str] values: None and the strings over `chars`.
OptionalStrings(chars) == {<<>>} \cup {<<s>> : s \in TextsOver(chars, MaxRegionLen)}

\* Link texts and hrefs without any marker, and one with.
PlainTexts == {<<>>, <<<<"x">>>>, <<<<"x", " ", "f", "l">>>>}

PlainHrefs == {<<>>, <<<<"/">>>>, <<<<"/", "f", "l">>>>}

\* The pairs (href, text) the filter is called with: any href with a plain
\* text, and a plain href with any text.
RegionInputs == (OptionalStrings(RegionHrefChars) \X PlainTexts) \cup (PlainHrefs \X OptionalStrings(RegionTextChars))

\* A caller hands an href and a link text to the region filter.
RegionCall ==
    /\ RunIdle /\ ExtractionIdle /\ TextIdle
    /\ \E link \in RegionInputs :
        /\ textIn' = <<[op |-> "region", href |-> link[1], text |-> link[2]]>>
        /\ textOut' = <<looks_like_florida_str(link[1], link[2])>>
    /\ UNCHANGED <<variant, runVars, navVars, methodVars, extractVars, recordVars,
                   subVars, paceVars, selectVars>>

\* str.strip() on the texts of the brand elements.
Strip(t) == CASE t = " " -> "" [] t = " Sunshine " -> "Sunshine" [] OTHER -> t

\* Number of selectors extract_brand_from_card tries, resp. of the
\* brand-attribute selectors extract_brand_from_pdp tries.
brand_selectors == 5
meta_selectors == 3

\* Most breadcrumb links read: range(min(5, count)).
crumb_limit == 5

\* Longest breadcrumb text taken for a brand: 1 <= len(text) <= 40.
crumb_max_len == 40

exclude_terms == {"home", "flower", "pre-rolls", "minis", "ground & shake", "products", "shop"}

\* str.lower() and len() of a breadcrumb text.
LowerText(t) == CASE t = "Home" -> "home" [] t = "Shop" -> "shop" [] OTHER -> t

TextLen(t) == CASE t = "" -> 0 [] t = "A brand name of more than forty characters" -> 42 [] OTHER -> 8

\* Text of the first element of each selector, "" when the selector matches
\* nothing or the element has no text.
CardMarkers ==
    {[k \in 1..brand_selectors |-> ""],
     [k \in 1..brand_selectors |-> IF k = 1 THEN " " ELSE IF k = 3 THEN "Cookies" ELSE ""],
     [k \in 1..brand_selectors |-> IF k = 5 THEN " Sunshine " ELSE ""],
     [k \in 1..brand_selectors |-> IF k = 2 THEN " Sunshine " ELSE IF k = 4 THEN "Cookies" ELSE ""]}

MetaMarkers ==
    {[k \in 1..meta_selectors |-> ""],
     [k \in 1..meta_selectors |-> IF k = 3 THEN "Meta Brand" ELSE " "],
     [k \in 1..meta_selectors |-> IF k = 1 THEN "Meta Brand" ELSE "Cookies"]}

CrumbTexts == {"Home", "Shop", "Crumb Brand", " ", "A brand name of more than forty characters"}

\* Text of the element that matches /Brand\s*:/, <<>> when there is none.
LabelLines == {<<>>, <<"Brand:">>, <<"Brand: Label Brand">>}

\* Group 1 of Brand\s*[:\-]\s*([^\n\r]+) on the body text, <<>> when the
\* expression does not match.
BodyGroups == {<<>>, <<" ">>, <<"Body Brand">>}

\* Detail pages: one that fails to load, and what a loaded one shows.
DetailPages ==
    {[loads |-> FALSE, crumbs |-> <<>>, label |-> <<>>, meta |-> [k \in 1..meta_selectors |-> ""], body |-> <<>>]}
    \cup [loads : {TRUE}, crumbs : TextsOver(CrumbTexts, MaxCrumbs), label : LabelLines, meta : MetaMarkers, body : BodyGroups]

\* First element of `texts`, from index k on, with a non-blank text,
\* stripped; <<>> when there is none.
RECURSIVE FirstNonBlank(_, _)
FirstNonBlank(texts, k) ==
    IF k > Len(texts) THEN <<>>
    ELSE IF Strip(texts[k]) # "" THEN <<Strip(texts[k])>>
    ELSE FirstNonBlank(texts, k + 1)

\* extract_brand_from_card: the selectors in their order.
extract_brand_from_card(markers) == FirstNonBlank(markers, 1)

\* crumb_texts: the non-blank texts of the first crumb_limit breadcrumbs.
RECURSIVE CrumbTextsOf(_, _)
CrumbTextsOf(crumbs, k) ==
    IF k > Min(crumb_limit, Len(crumbs)) THEN <<>>
    ELSE IF Strip(crumbs[k]) # "" THEN <<Strip(crumbs[k])>> \o CrumbTextsOf(crumbs, k + 1)
    ELSE CrumbTextsOf(crumbs, k + 1)

\* The first breadcrumb text that is no navigation term and has 1 to 40
\* characters.
RECURSIVE FirstBrandCrumb(_)
FirstBrandCrumb(texts) ==
    IF texts = <<>> THEN <<>>
    ELSE IF LowerText(Head(texts)) \notin exclude_terms /\ 1 <= TextLen(Head(texts)) /\ TextLen(Head(texts)) <= crumb_max_len
         THEN <<Head(texts)>>
    ELSE FirstBrandCrumb(Tail(texts))

BreadcrumbTier(page) == FirstBrandCrumb(CrumbTextsOf(page.crumbs, 1))

\* line.split(":", 1)[1].strip() of the labelled field.
AfterColon(line) == IF line = "Brand: Label Brand" THEN "Label Brand" ELSE ""

LabelTier(page) == IF page.label # <<>> /\ AfterColon(page.label[1]) # "" THEN <<AfterColon(page.label[1])>> ELSE <<>>

MetaTier(page) == FirstNonBlank(page.meta, 1)

\* brand_match.group(1).strip(), or None without a match.
BodyTier(page) == IF page.body = <<>> THEN <<>> ELSE <<Strip(page.body[1])>>

\* Mutant: the labelled field is read before the breadcrumbs.
DetailTiersLabelFirst(page) == <<LabelTier(page), BreadcrumbTier(page), MetaTier(page), BodyTier(page)>>

\* The lookups of extract_brand_from_pdp in the order of its code.
DetailTiers(page) == <<BreadcrumbTier(page), LabelTier(page), MetaTier(page), BodyTier(page)>>

\* extract_brand_from_pdp on a page: each lookup returns as soon as it has
\* a value; a page that fails to load gives None.  `source` is the number of
\* the lookup that answered (0: none).
extract_brand_from_pdp_page(page) ==
    LET tiers == DetailTiers(page)
        answered == {k \in 1..Len(tiers) : tiers[k] # <<>>}
        first == CHOOSE k \in answered : \A j \in answered : k <= j
    IN IF ~page.loads \/ answered = {} THEN [value |-> <<>>, source |-> 0]
       ELSE [value |-> tiers[first], source |-> first]

\* Brand of the assembler: the card's brand, else, with a context and a url,
\* the detail page's brand when it is truthy.
ResolveBrand(markers, has_context, has_url, page) ==
    LET brand == extract_brand_from_card(markers)
        visit == has_context /\ has_url /\ brand = <<>>
        pdp_brand == extract_brand_from_pdp_page(page)
    IN IF brand # <<>> THEN [brand |-> brand, tier |-> 1, visited |-> FALSE]
       ELSE IF visit /\ pdp_brand.value # <<>> /\ pdp_brand.value # <<"">>
            THEN [brand |-> pdp_brand.value, tier |-> pdp_brand.source + 1, visited |-> TRUE]
       ELSE [brand |-> <<>>, tier |-> 0, visited |-> visit]

\* A caller has the assembler resolve the brand of a card.
BrandCall ==
    /\ RunIdle /\ ExtractionIdle /\ TextIdle
    /\ \E markers \in CardMarkers, has_context \in BOOLEAN, has_url \in BOOLEAN, page \in DetailPages :
        /\ textIn' = <<[op |-> "brand", markers |-> markers, has_context |-> has_context,
                        has_url |-> has_url, page |-> page]>>
        /\ textOut' = <<ResolveBrand(markers, has_context, has_url, page)>>
    /\ UNCHANGED <<variant, runVars, navVars, methodVars, extractVars, recordVars,
                   subVars, paceVars, selectVars>>

TextNext ==
    \/ PriceCall
    \/ ThcCall
    \/ StrainCall
    \/ RegionCall
    \/ BrandCall

\* The text extractors of data_extractors.py, each called on a text.
TextSpec == Init /\ [][TextNext]_vars

(* ------------------------------- claims -------------------------------- *)

\* scrape_all_categories has ended: it returned a result or let an exception out.
Finished == pc \in {"done", "raised"}

Returned == pc = "done" /\ result # <<>>

\* C1: once scrape_all_categories has begun it always returns a
\* ScrapingResult and never lets an exception propagate to its caller.
C1_AlwaysReturnsResult == pc # "raised" /\ (pc = "done" => result # <<>>)

\* C2: when a (store, category) unit fails and nothing else does, the run
\* still returns success=true with exactly the products the other units gave.
C2_FailureIsolated ==
    (Finished /\ failedUnits # {} /\ ~closeFailed /\ ~teardownFailed)
        => (Returned /\ result[1].success /\ result[1].products = all_products)

\* C3: a failed store discovery ends the run Failed: success=false, no
\* products and the captured error message.
C3_DiscoveryFailureFailsRun ==
    (Finished /\ discoveryFailed)
        => (Returned /\ ~result[1].success /\ result[1].products = <<>>
            /\ result[1].error_message # "None")

\* C4: on every exit path of a run, release of the session opened at its
\* start has been attempted by the time the run ends; no run ends with its
\* session open and no release attempted.
C4_ReleaseOnEveryExit ==
    Finished => /\ opened => released
                /\ session = "open" => released

\* C4 witness: a run that opened a browser, failed, and released it before
\* returning the failure result.
C4_Witness == Returned /\ ~result[1].success /\ opened /\ released /\ ~closeFailed

\* C5: a browser.close() that throws does not change the outcome: the run
\* still returns success=true with every product it collected.
C5_TeardownFailureHarmless ==
    (Finished /\ closeFailed)
        => (Returned /\ result[1].success /\ result[1].products = all_products)

\* C6: a run cancelled while a navigation, wait or pacing delay is
\* outstanding returns a Failed result instead of propagating the interrupt.
C6_CancelReturnsFailedResult ==
    (Finished /\ cancelled) => (Returned /\ ~result[1].success)

\* What a goto call with at most n attempts looks like at every point of the
\* call: no attempt after a success, the k-th wait (from 0) is
\* base_delay * 2^k, one wait between two attempts and none after the last,
\* and the error is raised only after n failed attempts.
GotoContract(n) ==
    LET tries == Len(navOutcomes) IN
    /\ tries <= n
    /\ \A i \in 1..tries - 1 : ~navOutcomes[i]
    /\ \A k \in 1..Len(navWaits) : navWaits[k] = base_delay * (2 ^ (k - 1))
    /\ navPc = "attempt" => Len(navWaits) = tries
    /\ navPc \in {"backoff", "ratelimit", "returned", "raised"} => Len(navWaits) = tries - 1
    /\ navPc = "backoff" => ~navOutcomes[tries] /\ tries < n
    /\ navPc \in {"ratelimit", "returned"} => navOutcomes[tries]
    /\ navPc = "raised" => tries = n /\ ~navOutcomes[tries]

\* C7 as stated: Navigator goto makes at most 3 attempts for one call, waits
\* base_delay * 2^k after failed attempt k and raises after the last one.
C7_AtMostThreeAttempts == GotoContract(3)

\* C7 amended: at most 3 attempts in the synchronous Navigator and at most 4
\* (one attempt plus max_retries = 3 retries) in the asynchronous one; the
\* rest of the contract as stated.
C7_AttemptsPerVariant == GotoContract(IF variant = "sync" THEN 3 ELSE 4)

\* C7 witness: an asynchronous goto that raised after its final failed attempt.
C7_Witness == variant = "async" /\ navPc = "raised" /\ navWaits = <<1, 2, 4>>

\* C8: every successful Navigator goto has applied a rate-limit delay
\* between the configured minimum and maximum before it returns.
C8_RateLimitAfterGoto ==
    navPc = "returned" => (navDelay >= rate_limit_min /\ navDelay <= rate_limit_max)

LoadRunning == loadPc \in {"scroll", "check", "click"}

\* C10: the pagination loop terminates for every site behaviour, also when
\* the "load more" control stays present, visible and clickable forever.
C10_LoadTerminates == LoadRunning ~> (loadPc = "finished")

Attempted == failedUnits \cup productiveUnits

InRegion(as, k) == ~as[k].faulty /\ looks_like_florida(as[k].href, as[k].text)

\* C11: the list extract_store_links returns never holds two stores of the
\* same name, and every store in it comes from the first in-region link of
\* that name in page order.
C11_StoreNamesUnique ==
    discOut # <<>> =>
        LET out == discOut[1]
            as == anchors[1]
        IN /\ \A i, j \in 1..Len(out) : i # j => out[i].name # out[j].name
           /\ \A i \in 1..Len(out) :
                \E k \in 1..Len(as) :
                    /\ InRegion(as, k)
                    /\ as[k].text = out[i].name /\ as[k].href = out[i].url
                    /\ \A l \in 1..k - 1 : InRegion(as, l) => as[l].text # as[k].text

\* Dedup key (store, slug, size, category) of an item of the returned list;
\* an item that is no record has the key of the card it was made from.
ItemKey(item, cards) ==
    IF item.kind = "ProductData"
    THEN <<item.store, product_slug(item.url), item.size_raw, item.subcategory>>
    ELSE <<item.store, product_slug(cards[item.idx].href), cards[item.idx].size, item.cat>>

\* C13: no two items of the list scrape_category returns share the dedup key
\* (store, slug, size, category): of the cards with one key one item is kept.
C13_NoDuplicateKeys ==
    catOut # <<>> =>
        LET out == catOut[1]
            cards == pageCards[1].cards
        IN \A i, j \in 1..Len(out) :
            i # j => ItemKey(out[i], cards) # ItemKey(out[j], cards)

\* The card has a primary name link with a non-blank name.
Nameable(card) == card.links > 0 /\ card.name # ""

\* C18: the assembler returns None without raising for a card without a
\* name link or with a blank name and returns a record only with a non-empty
\* name; in the traversal such a card adds no item to the returned list and
\* every other extractable card of the page is still represented.
C18_NamelessCardSkipped ==
    /\ cardOut # <<>> =>
        /\ ~cardOut[1].raised
        /\ ~Nameable(cardIn[1].card) => cardOut[1].value = <<>>
        /\ cardOut[1].value # <<>> => cardOut[1].value[1].name # ""
    /\ catOut # <<>> =>
        LET out == catOut[1]
            cards == pageCards[1].cards
        IN /\ \A i \in 1..Len(out) :
                IF out[i].kind = "ProductData" THEN out[i].name # ""
                ELSE Nameable(cards[out[i].idx])
           /\ (pageCards[1].navOk /\ pageCards[1].pageOk) =>
                \A k \in 1..Len(cards) :
                    (Nameable(cards[k]) /\ ~cards[k].faulty) =>
                        \E i \in 1..Len(out) :
                            ItemKey(out[i], cards) = <<1, product_slug(cards[k].href),
                                                        cards[k].size, 1>>

\* The detail-page lookup of the price, resp. of the brand, was made and failed.
PriceLookupFailed == cardIn[1].card.price = <<>> /\ cardIn[1].context[1].price = "error"
BrandLookupFailed == cardIn[1].card.brand = <<>> /\ cardIn[1].context[1].brand = "error"

\* C19: a detail-page lookup that times out or errors does not abort the
\* extraction of the card: the assembler returns a record in which the field
\* looked up is absent and every other field is as extracted from the card
\* (or from the other, successful lookup).
C19_LookupFailureKeepsRecord ==
    (/\ cardOut # <<>>
     /\ Nameable(cardIn[1].card) /\ ~cardIn[1].card.faulty
     /\ cardIn[1].card.href # <<>> /\ cardIn[1].context # <<>>
     /\ (PriceLookupFailed \/ BrandLookupFailed))
        => LET card == cardIn[1].card
               context == cardIn[1].context[1]
               out == cardOut[1]
           IN /\ ~out.raised
              /\ out.value # <<>>
              /\ PriceLookupFailed => out.value[1].price = <<>>
              /\ BrandLookupFailed => out.value[1].brand = <<>>
              /\ (card.price = <<>> /\ context.price = "found") => out.value[1].price = <<PdpPrice>>
              /\ (card.brand = <<>> /\ context.brand = "found") => out.value[1].brand = <<PdpBrand>>
              /\ card.price # <<>> => out.value[1].price = card.price
              /\ card.brand # <<>> => out.value[1].brand = card.brand
              /\ out.value[1].name = card.name
              /\ out.value[1].url = card.href
              /\ out.value[1].size_raw = card.size
              /\ out.value[1].grams = grams_from_size(card.size)
              /\ out.value[1].strain_type = card.strain

\* C19 witness: the price lookup failed and the record came back without a
\* price but with the size read from the card.
C19_Witness ==
    /\ cardOut # <<>> /\ cardIn[1].context # <<>> /\ cardIn[1].card.href # <<>>
    /\ PriceLookupFailed
    /\ cardOut[1].value # <<>>
    /\ cardOut[1].value[1].price = <<>>
    /\ cardOut[1].value[1].size_raw = <<"3.5g">>

\* C15: for every ScrapingResult, however it was constructed,
\* total_products equals the length of its product list.
C15_TotalIsLength ==
    built # <<>> => built[1].total_products = Len(built[1].products)

\* C16: once calculate_price_per_g has run, a record with price (any value
\* >= 0) and grams present and grams > 0 has price_per_g = round(price /
\* grams, 2), and every other record has no price_per_g.
C16_PricePerGramComputed ==
    (record # <<>> /\ recLast = "calculate") =>
        LET p == record[1] IN
        IF p.price # <<>> /\ p.grams # <<>> /\ p.grams[1] > 0
        THEN p.price_per_g = <<PricePerGram(p.price[1], p.grams[1])>>
        ELSE p.price_per_g = <<>>

\* C17: in every state of a record (after construction with arbitrary
\* fields, after price or grams were changed or cleared, after
\* calculate_price_per_g, after a CSV load) price_per_g is None unless price
\* and grams are both present and grams > 0.
C17_NoStalePricePerGram ==
    record # <<>> =>
        (record[1].price_per_g # <<>> =>
            (record[1].price # <<>> /\ record[1].grams # <<>> /\ record[1].grams[1] > 0))

\* C20: the document the subprocess prints matches the result the engine
\* returned (success flag, number of products, counters), and a run that
\* found N >= 1 products with nothing failing is printed as success=true
\* with N products, of which the host rebuilds N records.
C20_DocumentMatchesRun ==
    /\ (stdout # <<>> /\ Returned) =>
        /\ stdout[1].success = result[1].success
        /\ Len(stdout[1].products) = Len(result[1].products)
        /\ stdout[1].categories_scraped = result[1].categories_scraped
        /\ stdout[1].stores_scraped = result[1].stores_scraped
    /\ (stdout # <<>> /\ productiveUnits # {} /\ ~closeFailed /\ ~teardownFailed) =>
        /\ stdout[1].success
        /\ Len(stdout[1].products) = Len(all_products)
    /\ (hostResult # <<>> /\ productiveUnits # {} /\ ~closeFailed /\ ~teardownFailed) =>
        Len(hostResult[1].products) = Len(all_products)

C30_VariantsAgreeOnStores ==
    anchors # <<>> =>
        extract_store_links("sync", TRUE, TRUE, anchors[1])
            = extract_store_links("async", TRUE, TRUE, anchors[1])

\* C29: every detail page opened for a fallback lookup is closed before the
\* lookup returns, on the found, not-found and error paths alike: after the
\* assembler's lookups no detail page is left open in the context.
C29_DetailPagesClosed ==
    cardOut # <<>> => cardOut[1].open_pages = 0

\* C28: every product recorded under store S was taken from a category page
\* loaded while the store selected for the session was S; when the selection
\* of S fails, no product of a page served for another (an earlier selected
\* or no) store is recorded under S.
C28_RecordedUnderSelectedStore ==
    \A r \in recorded : r.served = r.store

\* The amounts of the "$amount" tokens of a text, in cents: after each "$",
\* optional blanks, then a whole number with or without two decimals.
AmountsIn(text) ==
    LET numerals == {de \in (1..Len(text)) \X (1..Len(text)) :
                        /\ de[1] <= de[2]
                        /\ \A k \in de[1]..de[2] : text[k] \in Digits
                        /\ de[2] = Len(text) \/ text[de[2] + 1] \notin Digits
                        /\ \E i \in 1..(de[1] - 1) :
                              text[i] = "$" /\ \A k \in (i + 1)..(de[1] - 1) : text[k] = " "}
        decimals(e) == e + 3 <= Len(text) /\ text[e + 1] = "." /\ text[e + 2] \in Digits /\ text[e + 3] \in Digits
    IN {100 * NumeralValue(text, de[1], de[2])
           + (IF decimals(de[2]) THEN NumeralValue(text, de[2] + 2, de[2] + 3) ELSE 0) : de \in numerals}

\* C22: the price extraction returns the minimum of the amounts of all the
\* "$amount" tokens of the text, and absent when the text has none.
C22_MinimumOfAmounts ==
    (textIn # <<>> /\ textIn[1].op = "price") =>
        LET amounts == AmountsIn(textIn[1].text)
        IN /\ amounts = {} => textOut[1] = <<>>
           /\ amounts # {} => /\ textOut[1] # <<>>
                              /\ textOut[1][1] \in amounts
                              /\ \A a \in amounts : textOut[1][1] <= a

\* "$2 $1", as "was $30.00 now $25.50": the later, lower amount is returned.
C22_Witness ==
    /\ textIn # <<>> /\ textIn[1].op = "price"
    /\ textIn[1].text = <<"$", "2", " ", "$", "1">>
    /\ textOut = <<<<100>>>>

\* text[a..b] is a numeral: digits, then possibly a point and more digits.
IsNumeral(text, a, b) ==
    \E e \in a..b :
        /\ \A k \in a..e : text[k] \in Digits
        /\ e = b \/ (text[e + 1] = "." /\ e + 2 <= b /\ \A k \in (e + 2)..b : text[k] \in Digits)

\* text[a..p] is a percentage "X%": the longest numeral that starts at a,
\* which ends at b, then possibly blanks, then "%" at p.
IsPercentage(text, a, b, p) ==
    /\ IsNumeral(text, a, b)
    /\ \A longer \in (b + 1)..Len(text) : ~IsNumeral(text, a, longer)
    /\ b < p /\ text[p] = "%"
    /\ \A k \in (b + 1)..(p - 1) : text[k] = " "

\* The percentages <<a, b, p>> that follow index s after at least `gap`
\* characters, none of them a digit.
PercentagesAfter(text, s, gap) ==
    {abp \in (1..Len(text)) \X (1..Len(text)) \X (1..Len(text)) :
        /\ abp[1] > s + gap
        /\ \A k \in (s + 1)..(abp[1] - 1) : text[k] \notin Digits
        /\ IsPercentage(text, abp[1], abp[2], abp[3])}

\* "THC ... X%" read at the whole word THC at index i.
SingleAt(text, i) == IF WholeWordAt(text, i, "THC") THEN PercentagesAfter(text, i, 0) ELSE {}

\* "THC ... X% ... Y%" read at index i: the pairs <<X, Y>>.
RangeAt(text, i) == UNION {{<<x, y>> : y \in PercentagesAfter(text, x[3], 1)} : x \in SingleAt(text, i)}

\* Value of the numeral text[a..b].
PotencyOf(text, a, b) ==
    LET e == SpanEnd(text, a, Digits)
    IN FloatOf(text, a, e, e + 2, b)

Least(S) == CHOOSE i \in S : \A j \in S : i <= j

\* C23: the potency extraction returns the lower bound X of the first THC
\* range "THC ... X% ... Y%" of the text, else the value of the first
\* "THC ... X%", else absent; a range is preferred to a single value.
C23_LowerBoundOfRange ==
    (textIn # <<>> /\ textIn[1].op = "thc") =>
        LET text == textIn[1].text
            ranges == {i \in 1..Len(text) : RangeAt(text, i) # {}}
            singles == {i \in 1..Len(text) : SingleAt(text, i) # {}}
            lower(i) == CHOOSE x \in SingleAt(text, i) : TRUE
        IN /\ ranges # {} =>
                textOut[1] = <<PotencyOf(text, lower(Least(ranges))[1], lower(Least(ranges))[2])>>
           /\ (ranges = {} /\ singles # {}) =>
                textOut[1] = <<PotencyOf(text, lower(Least(singles))[1], lower(Least(singles))[2])>>
           /\ singles = {} => textOut[1] = <<>>
           /\ (\A i \in 1..Len(text) : text[i] # "THC") => textOut[1] = <<>>

\* "THC 1%-2%": the range gives its lower bound, 1.
C23_Witness ==
    /\ textIn # <<>> /\ textIn[1].op = "thc"
    /\ textIn[1].text = <<"THC", " ", "1", "%", "-", "2", "%">>
    /\ RangeAt(textIn[1].text, 1) = {<<<<3, 3, 4>>, <<6, 6, 7>>>>}
    /\ textOut = <<<<[whole |-> 1, decimals |-> <<>>]>>>>

\* "THC 1.1%": a single value with decimals.
C23_WitnessSingle ==
    /\ textIn # <<>> /\ textIn[1].op = "thc"
    /\ textIn[1].text = <<"THC", " ", "1", ".", "1", "%">>
    /\ textOut = <<<<[whole |-> 1, decimals |-> <<"1">>]>>>>

\* C24: the strain-type extraction returns the keyword whose whole-word,
\* case-insensitive occurrence comes first in the text, capitalized, and
\* absent when none of the three occurs as a whole word.
C24_FirstStrainKeyword ==
    (textIn # <<>> /\ textIn[1].op = "strain") =>
        LET text == textIn[1].text
            occurrences == {i \in 1..Len(text) : \E k \in 1..Len(StrainTypes) : WholeWordAt(text, i, StrainTypes[k])}
        IN /\ occurrences = {} => textOut[1] = <<>>
           /\ occurrences # {} => textOut[1] = <<CaseFold(text[Least(occurrences)])>>

\* The same string in the other letter case.
SwapCase(opt) ==
    IF opt = <<>> THEN <<>>
    ELSE <<[k \in 1..Len(opt[1]) |->
              CASE opt[1][k] = "f" -> "F" [] opt[1][k] = "F" -> "f"
                [] opt[1][k] = "l" -> "L" [] opt[1][k] = "L" -> "l"
                [] OTHER -> opt[1][k]]>>

\* The letters F and L, in either case, at index k and k + 1 of s.
FlAt(s, k) == k >= 1 /\ k + 1 <= Len(s) /\ s[k] \in {"F", "f"} /\ s[k + 1] \in {"L", "l"}

\* A region marker in the link text: ", FL" or " FL " anywhere, " FL" at
\* the end.
TextMarker(s) ==
    \E k \in 1..Len(s) :
        /\ FlAt(s, k)
        /\ k >= 2 /\ s[k - 1] = " "
        /\ \/ k >= 3 /\ s[k - 2] = ","
           \/ k + 1 = Len(s)
           \/ k + 2 <= Len(s) /\ s[k + 2] = " "

\* A region slug in the href: "/florida" or "-fl-" anywhere, "/fl" or "-fl"
\* at the end.
HrefMarker(s) ==
    \E k \in 1..Len(s) :
        /\ FlAt(s, k)
        /\ k >= 2
        /\ \/ s[k - 1] = "/" /\ k + 2 <= Len(s) /\ s[k + 2] \in {"orida", "ORIDA"}
           \/ s[k - 1] = "-" /\ k + 2 <= Len(s) /\ s[k + 2] = "-"
           \/ s[k - 1] \in {"/", "-"} /\ k + 1 = Len(s)

C26_TrailingSlashSlug ==
    (textIn # <<>> /\ textIn[1].op = "region") =>
        LET href == textIn[1].href
        IN (href # <<>> /\ EndsWith(Lower(href[1]), <<"-", "f", "l", "/">>)) => textOut[1] = TRUE

\* The stripped text at the least index of `texts` that satisfies `Good`
\* after stripping, <<>> when no index does.
LeastGood(texts, Good(_)) ==
    LET good == {k \in 1..Len(texts) : Good(Strip(texts[k]))}
    IN IF good = {} THEN <<>> ELSE <<Strip(texts[Least(good)])>>

NonBlank(t) == t # ""

BrandLikeCrumb(t) == t # "" /\ LowerText(t) \notin exclude_terms /\ TextLen(t) <= 40

\* What each of the five tiers yields for the call in textIn: (1) the brand
\* markers of the card, (2) the breadcrumbs outside the stoplist, (3) the
\* labelled field, (4) the brand-attribute markers, (5) the page text; tiers
\* 2 to 5 yield nothing when there is no context or url or the page fails.
BrandTierYields ==
    LET call == textIn[1]
        page == call.page
        detail == call.has_context /\ call.has_url /\ page.loads
    IN <<LeastGood(call.markers, NonBlank),
         IF detail THEN LeastGood(page.crumbs, BrandLikeCrumb) ELSE <<>>,
         IF detail /\ page.label = <<"Brand: Label Brand">> THEN <<"Label Brand">> ELSE <<>>,
         IF detail THEN LeastGood(page.meta, NonBlank) ELSE <<>>,
         IF detail /\ page.body = <<"Body Brand">> THEN <<"Body Brand">> ELSE <<>>>>

\* C21: the brand is that of the first tier that yields a value, in the
\* order card markers, breadcrumbs, labelled field, brand attributes, page
\* text; a later tier answers only when every earlier one yielded nothing;
\* the detail page is visited for the brand only when the card yielded none
\* and a detail url exists.
C21_BrandTierOrder ==
    (textIn # <<>> /\ textIn[1].op = "brand") =>
        LET yields == BrandTierYields
            yielding == {k \in 1..5 : yields[k] # <<>>}
            out == textOut[1]
        IN /\ yielding = {} => (out.brand = <<>> /\ out.tier = 0)
           /\ yielding # {} => (out.tier = Least(yielding) /\ out.brand = yields[out.tier])
           /\ out.tier # 0 => \A j \in 1..(out.tier - 1) : yields[j] = <<>>
           /\ out.visited => (yields[1] = <<>> /\ textIn[1].has_url)
           /\ out.tier > 1 => out.visited

\* A card without brand markers whose detail page has a breadcrumb outside
\* the stoplist and also a labelled field: the breadcrumb is the brand.
C21_Witness ==
    /\ textIn # <<>> /\ textIn[1].op = "brand"
    /\ \A k \in 1..brand_selectors : textIn[1].markers[k] = ""
    /\ textIn[1].page.crumbs = <<"Home", "Crumb Brand">>
    /\ textIn[1].page.label = <<"Brand: Label Brand">>
    /\ textOut = <<[brand |-> <<"Crumb Brand">>, tier |-> 2, visited |-> TRUE]>>

\* The last tier answers: nothing but the page text names a brand.
C21_WitnessLastTier ==
    /\ textIn # <<>> /\ textIn[1].op = "brand"
    /\ textOut = <<[brand |-> <<"Body Brand">>, tier |-> 5, visited |-> TRUE]>>

====
